---- MODULE Spec2Model ----
(***************************************************************************)
(* Model of the blueshift_anchor_escrow program: the three instructions    *)
(* make (Create), take (Fulfill) and refund (Cancel) over the Escrow       *)
(* accounts, their vaults and the users' token accounts.                   *)
(*                                                                         *)
(* Every instruction is one atomic step: the accounts are validated in the *)
(* order the #[derive(Accounts)] struct prescribes (all fields are         *)
(* deserialized in declaration order, then the init constraints run, then  *)
(* the constraints of the other fields in declaration order, and within    *)
(* one field  seeds  is checked before  has_one  and  close ), then the    *)
(* handler runs; an Err anywhere makes the runtime drop every account      *)
(* change of the instruction.                                              *)
(*                                                                         *)
(* The accounts a client may pass: any user as signer, any user as maker,  *)
(* any escrow address, any mint as mint_a and mint_b, and as vault the     *)
(* token account of the escrow address for any mint (vmint).  Every user   *)
(* holds a token account for every mint; the taker may be the maker.       *)
(* No constraint of Take or Refund excludes any of these.                  *)
(*                                                                         *)
(* The token program rejects a transfer from or to a frozen token account. *)
(* No instruction of the program freezes or thaws an account; the          *)
(* specification SpecFault adds the freeze authority of the mints, which   *)
(* makes a transfer in the middle of a handler fail.                       *)
(***************************************************************************)
EXTENDS Integers, FiniteSets, Sequences, TLC

\* ---------------------------------------------------------------- bounds
NumUsers == 2
MaxSeed == 1
MaxAmount == 2
InitBal == 1

\* the bounds of the specification with several seeds per maker
MaxSeedWide == 2
MaxAmountWide == 1

\* how many token accounts are frozen at a time in SpecFault
MaxFrozen == 1

Users == 1..NumUsers
Seeds == 1..MaxSeed
Mints == {"A", "B"}
Amounts == 0..MaxAmount

\* ---------------------------------------------------------------- errors
Ok == "Ok"
\* EscrowError variants used by the instructions
InvalidAmount == "InvalidAmount"
InvalidMaker == "InvalidMaker"
InvalidMintA == "InvalidMintA"
InvalidMintB == "InvalidMintB"
InsufficientFunds == "InsufficientFunds"
\* errors raised by the account validation and by the programs called
AccountNotInitialized == "AccountNotInitialized"
AccountAlreadyInUse == "AccountAlreadyInUse"
ConstraintSeeds == "ConstraintSeeds"
ConstraintAssociated == "ConstraintAssociated"
TokenInsufficientFunds == "TokenInsufficientFunds"
TokenAccountFrozen == "TokenAccountFrozen"
TokenMintMismatch == "TokenMintMismatch"
TokenNonNativeHasBalance == "TokenNonNativeHasBalance"

\* The names the specification gives to the outcomes above.
RecordNotFound == AccountNotInitialized
DuplicateEscrow == AccountAlreadyInUse
AuthorityMismatch == ConstraintSeeds
\* InvalidAsset for a make whose two mints are the same
InvalidAsset == InvalidMintA
\* InsufficientFunds for a take: raised by the Token B transfer
TakerInsufficientFunds == TokenInsufficientFunds

\* ---------------------------------------------------------------- state
VARIABLES
    escrow,   \* the Escrow accounts that exist: address -> Escrow
    vault,    \* the token accounts owned by an escrow address: <<address, mint>> -> amount
    bal,      \* the users' associated token accounts: <<user, mint>> -> amount
    deposited, \* per Escrow that exists, the amount its make was called with
    lastClosed, \* the Escrow closed most recently: its address, its data, the instruction that closed it
    frozen,   \* the users' token accounts that are frozen: a set of <<user, mint>>
    last      \* the last instruction executed, its signer, maker, address and result

vars == <<escrow, vault, bal, deposited, lastClosed, frozen, last>>

\* ------------------------------------------------------------ derivation
\* mutant: the seed is missing from the seeds
EscrowAddress_NoSeed(maker, seed) == <<maker, 1>>

\* seeds = [b"escrow", maker, seed]: the address is a function of (maker, seed)
\* alone, and different inputs give different addresses.
EscrowAddress(maker, seed) == <<maker, seed>>

\* the canonical bump found for the seeds; a fixed function of (maker, seed)
EscrowBump(maker, seed) == 255 - ((3 * maker + seed) % 4)

\* mutant: the authority is missing from the derivation, one vault per mint
VaultAddress_NoAuthority(addr, mint) == <<EscrowAddress(1, 1), mint>>

\* the associated token account of an escrow address for a mint
VaultAddress(addr, mint) == <<addr, mint>>

Addrs == {EscrowAddress(m, s) : m \in Users, s \in Seeds}

\* seeds = [b"escrow", maker.key(), escrow.seed], bump = escrow.bump
\* (identical in Take and Refund)
SeedsMatch(e, maker, addr) ==
    /\ EscrowAddress(maker, e.seed) = addr
    /\ EscrowBump(maker, e.seed) = e.bump

\* mutant: the signer seeds end with the first bump tried, not escrow.bump
SignerSeedsValid_FirstBump(e, maker, addr) ==
    /\ EscrowAddress(maker, e.seed) = addr
    /\ EscrowBump(maker, e.seed) = EscrowBump(1, 1)

\* signer seeds [b"escrow", maker, escrow.seed, [escrow.bump]] sign for the
\* escrow address exactly when they re-derive it
SignerSeedsValid(e, maker, addr) ==
    /\ EscrowAddress(maker, e.seed) = addr
    /\ EscrowBump(maker, e.seed) = e.bump

\* --------------------------------------------------------- account state
State(e, v, b) == [escrow |-> e, vault |-> v, bal |-> b]

Result(err, st) == [err |-> err, st |-> st]

Remove(f, k) == [x \in (DOMAIN f) \ {k} |-> f[x]]

Put(f, k, val) == [x \in (DOMAIN f) \cup {k} |-> IF x = k THEN val ELSE f[x]]

\* ------------------------------------------------------- token accounts
\* a user's associated token account for a mint
UserAta(user, mint) == [kind |-> "ata", user |-> user, addr |-> <<0, 0>>, mint |-> mint]

\* the vault: the associated token account whose authority is the escrow address
VaultAta(addr, mint) == [kind |-> "vault", user |-> 0, addr |-> addr, mint |-> mint]

AccountExists(st, acct) ==
    IF acct.kind = "vault"
    THEN VaultAddress(acct.addr, acct.mint) \in DOMAIN st.vault
    ELSE <<acct.user, acct.mint>> \in DOMAIN st.bal

TokenAmount(st, acct) ==
    IF acct.kind = "vault"
    THEN st.vault[VaultAddress(acct.addr, acct.mint)]
    ELSE st.bal[<<acct.user, acct.mint>>]

\* the account's state is Frozen
IsFrozen(acct) == acct.kind = "ata" /\ <<acct.user, acct.mint>> \in frozen

SetTokenAmount(st, acct, val) ==
    IF acct.kind = "vault"
    THEN [st EXCEPT !.vault[VaultAddress(acct.addr, acct.mint)] = val]
    ELSE [st EXCEPT !.bal[<<acct.user, acct.mint>>] = val]

\* mutant: the balance of the source is not checked (amounts are unsigned:
\* the subtraction saturates at 0)
transfer_checked_Unchecked(st, from, to, mint, amount) ==
    IF ~AccountExists(st, from) \/ ~AccountExists(st, to)
    THEN Result(AccountNotInitialized, st)
    ELSE IF from.mint # mint \/ to.mint # mint
    THEN Result(TokenMintMismatch, st)
    ELSE IF from = to
    THEN Result(Ok, st)
    ELSE LET moved == IF TokenAmount(st, from) < amount
                      THEN TokenAmount(st, from) ELSE amount IN
         Result(Ok,
           SetTokenAmount(
             SetTokenAmount(st, from, TokenAmount(st, from) - moved),
             to, TokenAmount(st, to) + moved))

\* mutant: the destination is not credited
transfer_checked_NoCredit(st, from, to, mint, amount) ==
    IF ~AccountExists(st, from) \/ ~AccountExists(st, to)
    THEN Result(AccountNotInitialized, st)
    ELSE IF from.mint # mint \/ to.mint # mint
    THEN Result(TokenMintMismatch, st)
    ELSE IF TokenAmount(st, from) < amount
    THEN Result(TokenInsufficientFunds, st)
    ELSE Result(Ok, SetTokenAmount(st, from, TokenAmount(st, from) - amount))

\* The token program's transfer_checked: neither account is frozen, the source
\* holds the amount, the mint of both accounts is the mint given (every call
\* passes the decimals of that same mint); a transfer from an account to
\* itself changes nothing.
transfer_checked(st, from, to, mint, amount) ==
    IF ~AccountExists(st, from) \/ ~AccountExists(st, to)
    THEN Result(AccountNotInitialized, st)
    ELSE IF IsFrozen(from) \/ IsFrozen(to)
    THEN Result(TokenAccountFrozen, st)
    ELSE IF TokenAmount(st, from) < amount
    THEN Result(TokenInsufficientFunds, st)
    ELSE IF from.mint # mint \/ to.mint # mint
    THEN Result(TokenMintMismatch, st)
    ELSE IF from = to
    THEN Result(Ok, st)
    ELSE Result(Ok,
           SetTokenAmount(
             SetTokenAmount(st, from, TokenAmount(st, from) - amount),
             to, TokenAmount(st, to) + amount))

\* The token program's close_account on a vault: only an empty account closes.
close_account(st, acct) ==
    IF ~AccountExists(st, acct)
    THEN Result(AccountNotInitialized, st)
    ELSE IF TokenAmount(st, acct) # 0
    THEN Result(TokenNonNativeHasBalance, st)
    ELSE Result(Ok, [st EXCEPT !.vault = Remove(st.vault, VaultAddress(acct.addr, acct.mint))])

\* The runtime keeps the account changes of an instruction only when it returns Ok.
Process(pre, r) == IF r.err = Ok THEN r ELSE Result(r.err, pre)

\* ------------------------------------------------------------------ make
\* the account data of a freshly allocated Escrow, before set_inner
ZeroEscrow == [seed |-> 0, maker |-> 0, mint_a |-> "none", mint_b |-> "none",
               receive |-> 0, bump |-> 0]

\* mutant: init_if_needed instead of init
MakeAccounts_IfNeeded(st, maker, seed, mint_a) ==
    LET addr == EscrowAddress(maker, seed)
        v == VaultAddress(addr, mint_a) IN
    Result(Ok, [st EXCEPT
        !.escrow = IF addr \in DOMAIN st.escrow THEN @ ELSE Put(@, addr, ZeroEscrow),
        !.vault = IF v \in DOMAIN st.vault THEN @ ELSE Put(@, v, 0)])

\* Make: the two init constraints, escrow first, then vault.
MakeAccounts(st, maker, seed, mint_a) ==
    LET addr == EscrowAddress(maker, seed) IN
    IF addr \in DOMAIN st.escrow
    THEN Result(AccountAlreadyInUse, st)
    ELSE IF VaultAddress(addr, mint_a) \in DOMAIN st.vault
    THEN Result(AccountAlreadyInUse, st)
    ELSE Result(Ok, [st EXCEPT !.escrow = Put(st.escrow, addr, ZeroEscrow),
                               !.vault = Put(st.vault, VaultAddress(addr, mint_a), 0)])

\* mutant: seed and receive are passed in each other's place
populate_escrow_SwappedArgs(st, addr, seed, maker, mint_a, mint_b, receive, bump) ==
    Result(Ok, [st EXCEPT !.escrow[addr] =
        [seed |-> receive, maker |-> maker, mint_a |-> mint_a, mint_b |-> mint_b,
         receive |-> seed, bump |-> bump]])

populate_escrow(st, addr, seed, maker, mint_a, mint_b, receive, bump) ==
    Result(Ok, [st EXCEPT !.escrow[addr] =
        [seed |-> seed, maker |-> maker, mint_a |-> mint_a, mint_b |-> mint_b,
         receive |-> receive, bump |-> bump]])

\* mutant: everything the maker holds is deposited
deposit_tokens_AllBalance(st, maker, addr, mint_a, amount) ==
    transfer_checked(st, UserAta(maker, mint_a), VaultAta(addr, mint_a), mint_a,
                     st.bal[<<maker, mint_a>>])

\* mutant: the amount to receive is deposited
deposit_tokens_Receive(st, maker, addr, mint_a, amount) ==
    transfer_checked(st, UserAta(maker, mint_a), VaultAta(addr, mint_a), mint_a,
                     st.escrow[addr].receive)

deposit_tokens(st, maker, addr, mint_a, amount) ==
    transfer_checked(st, UserAta(maker, mint_a), VaultAta(addr, mint_a), mint_a, amount)

\* mutant: the two require_gt! checks are missing
make_handler_NoAmountCheck(st, maker, seed, receive, amount, mint_a, mint_b) ==
    LET addr == EscrowAddress(maker, seed) IN
    IF mint_a = mint_b THEN Result(InvalidMintA, st)
    ELSE IF ~(st.bal[<<maker, mint_a>>] >= amount) THEN Result(InsufficientFunds, st)
    ELSE LET p == populate_escrow(st, addr, seed, maker, mint_a, mint_b, receive,
                                  EscrowBump(maker, seed)) IN
         IF p.err # Ok THEN p
         ELSE deposit_tokens(p.st, maker, addr, mint_a, amount)

\* mutant: the require_keys_neq! check is missing
make_handler_NoMintCheck(st, maker, seed, receive, amount, mint_a, mint_b) ==
    LET addr == EscrowAddress(maker, seed) IN
    IF ~(receive > 0) THEN Result(InvalidAmount, st)
    ELSE IF ~(amount > 0) THEN Result(InvalidAmount, st)
    ELSE IF ~(st.bal[<<maker, mint_a>>] >= amount) THEN Result(InsufficientFunds, st)
    ELSE LET p == populate_escrow(st, addr, seed, maker, mint_a, mint_b, receive,
                                  EscrowBump(maker, seed)) IN
         IF p.err # Ok THEN p
         ELSE deposit_tokens(p.st, maker, addr, mint_a, amount)

make_handler(st, maker, seed, receive, amount, mint_a, mint_b) ==
    LET addr == EscrowAddress(maker, seed) IN
    IF ~(receive > 0) THEN Result(InvalidAmount, st)
    ELSE IF ~(amount > 0) THEN Result(InvalidAmount, st)
    ELSE IF mint_a = mint_b THEN Result(InvalidMintA, st)
    ELSE IF ~(st.bal[<<maker, mint_a>>] >= amount) THEN Result(InsufficientFunds, st)
    ELSE LET p == populate_escrow(st, addr, seed, maker, mint_a, mint_b, receive,
                                  EscrowBump(maker, seed)) IN
         IF p.err # Ok THEN p
         ELSE deposit_tokens(p.st, maker, addr, mint_a, amount)

\* the whole make instruction
MakeInstruction(st, maker, seed, receive, amount, mint_a, mint_b) ==
    LET a == MakeAccounts(st, maker, seed, mint_a) IN
    IF a.err # Ok THEN Process(st, a)
    ELSE Process(st, make_handler(a.st, maker, seed, receive, amount, mint_a, mint_b))

\* ------------------------------------------------------------------ take
\* Take: the accounts are deserialized in declaration order (escrow, then
\* vault), then the constraints of escrow (seeds, the three has_one) and of
\* vault are checked.  vmint is the mint of the token account passed as vault.
TakeAccounts(st, maker, addr, mint_a, mint_b, vmint) ==
    IF addr \notin DOMAIN st.escrow THEN AccountNotInitialized
    ELSE IF VaultAddress(addr, vmint) \notin DOMAIN st.vault THEN AccountNotInitialized
    ELSE IF ~SeedsMatch(st.escrow[addr], maker, addr) THEN ConstraintSeeds
    ELSE IF st.escrow[addr].maker # maker THEN InvalidMaker
    ELSE IF st.escrow[addr].mint_a # mint_a THEN InvalidMintA
    ELSE IF st.escrow[addr].mint_b # mint_b THEN InvalidMintB
    ELSE IF vmint # mint_a THEN ConstraintAssociated
    ELSE Ok

\* mutant: pays the amount the vault holds instead of escrow.receive
transfer_to_maker_VaultAmount(st, taker, maker, addr, mint_b) ==
    transfer_checked(st, UserAta(taker, mint_b), UserAta(maker, mint_b), mint_b,
                     st.vault[VaultAddress(addr, st.escrow[addr].mint_a)])

\* Token B: taker -> maker, escrow.receive of it
transfer_to_maker(st, taker, maker, addr, mint_b) ==
    transfer_checked(st, UserAta(taker, mint_b), UserAta(maker, mint_b), mint_b,
                     st.escrow[addr].receive)

\* mutant: the vault is emptied but not closed
withdraw_and_close_vault_NoClose(st, taker, maker, addr, mint_a, vmint) ==
    IF ~SignerSeedsValid(st.escrow[addr], maker, addr)
    THEN Result(ConstraintSeeds, st)
    ELSE transfer_checked(st, VaultAta(addr, vmint), UserAta(taker, mint_a),
                          mint_a, TokenAmount(st, VaultAta(addr, vmint)))

\* Token A: everything the vault holds -> taker, then the vault is closed
withdraw_and_close_vault(st, taker, maker, addr, mint_a, vmint) ==
    IF ~SignerSeedsValid(st.escrow[addr], maker, addr)
    THEN Result(ConstraintSeeds, st)
    ELSE LET t == transfer_checked(st, VaultAta(addr, vmint), UserAta(taker, mint_a),
                                   mint_a, TokenAmount(st, VaultAta(addr, vmint))) IN
         IF t.err # Ok THEN t
         ELSE close_account(t.st, VaultAta(addr, vmint))

\* mutant: the close constraint is missing
CloseEscrow_Kept(st, addr) == Result(Ok, st)

\* mutant: the data of the account is zeroed but the account stays
CloseEscrow_Zeroed(st, addr) == Result(Ok, [st EXCEPT !.escrow[addr] = ZeroEscrow])

\* close = maker: the Escrow account is closed when the instruction ends
CloseEscrow(st, addr) == Result(Ok, [st EXCEPT !.escrow = Remove(st.escrow, addr)])

\* mutant: the result of the Token B transfer is not propagated
take_handler_IgnorePayment(st, taker, maker, addr, mint_a, mint_b, vmint) ==
    LET t == transfer_to_maker(st, taker, maker, addr, mint_b) IN
    withdraw_and_close_vault(t.st, taker, maker, addr, mint_a, vmint)

\* mutant: the result of the release of the vault is not propagated
take_handler_IgnoreRelease(st, taker, maker, addr, mint_a, mint_b, vmint) ==
    LET t == transfer_to_maker(st, taker, maker, addr, mint_b) IN
    IF t.err # Ok THEN t
    ELSE LET w == withdraw_and_close_vault(t.st, taker, maker, addr, mint_a, vmint) IN
         IF w.err # Ok THEN Result(Ok, t.st) ELSE w

take_handler(st, taker, maker, addr, mint_a, mint_b, vmint) ==
    LET t == transfer_to_maker(st, taker, maker, addr, mint_b) IN
    IF t.err # Ok THEN t
    ELSE withdraw_and_close_vault(t.st, taker, maker, addr, mint_a, vmint)

\* the whole take instruction
TakeInstruction(st, taker, maker, addr, mint_a, mint_b, vmint) ==
    LET a == TakeAccounts(st, maker, addr, mint_a, mint_b, vmint) IN
    IF a # Ok THEN Result(a, st)
    ELSE LET h == take_handler(st, taker, maker, addr, mint_a, mint_b, vmint) IN
         IF h.err # Ok THEN Process(st, h)
         ELSE Process(st, CloseEscrow(h.st, addr))

\* ---------------------------------------------------------------- refund
\* Refund: as Take, without mint_b; the maker is the signer.
RefundAccounts(st, maker, addr, mint_a, vmint) ==
    IF addr \notin DOMAIN st.escrow THEN AccountNotInitialized
    ELSE IF VaultAddress(addr, vmint) \notin DOMAIN st.vault THEN AccountNotInitialized
    ELSE IF ~SeedsMatch(st.escrow[addr], maker, addr) THEN ConstraintSeeds
    ELSE IF st.escrow[addr].maker # maker THEN InvalidMaker
    ELSE IF st.escrow[addr].mint_a # mint_a THEN InvalidMintA
    ELSE IF vmint # mint_a THEN ConstraintAssociated
    ELSE Ok

\* mutant: the vault is emptied but not closed
refund_and_close_vault_NoClose(st, maker, addr, mint_a, vmint) ==
    IF ~SignerSeedsValid(st.escrow[addr], maker, addr)
    THEN Result(ConstraintSeeds, st)
    ELSE transfer_checked(st, VaultAta(addr, vmint), UserAta(maker, mint_a),
                          mint_a, TokenAmount(st, VaultAta(addr, vmint)))

\* Token A: everything the vault holds -> maker, then the vault is closed
refund_and_close_vault(st, maker, addr, mint_a, vmint) ==
    IF ~SignerSeedsValid(st.escrow[addr], maker, addr)
    THEN Result(ConstraintSeeds, st)
    ELSE LET t == transfer_checked(st, VaultAta(addr, vmint), UserAta(maker, mint_a),
                                   mint_a, TokenAmount(st, VaultAta(addr, vmint))) IN
         IF t.err # Ok THEN t
         ELSE close_account(t.st, VaultAta(addr, vmint))

refund_handler(st, maker, addr, mint_a, vmint) ==
    refund_and_close_vault(st, maker, addr, mint_a, vmint)

\* the whole refund instruction
RefundInstruction(st, maker, addr, mint_a, vmint) ==
    LET a == RefundAccounts(st, maker, addr, mint_a, vmint) IN
    IF a # Ok THEN Result(a, st)
    ELSE LET h == refund_handler(st, maker, addr, mint_a, vmint) IN
         IF h.err # Ok THEN Process(st, h)
         ELSE Process(st, CloseEscrow(h.st, addr))

\* --------------------------------------------------------------- actions
Cur == State(escrow, vault, bal)

\* what is recorded of an instruction: which one, who signed, the maker account
\* and the escrow address it was given, and how it ended
Call(op, err, signer, maker, addr) ==
    [op |-> op, err |-> err, signer |-> signer, maker |-> maker, addr |-> addr]

NoAddr == <<0, 0>>

Apply(r) ==
    /\ escrow' = r.st.escrow
    /\ vault' = r.st.vault
    /\ bal' = r.st.bal

Init ==
    /\ escrow = << >>
    /\ vault = << >>
    /\ bal = [k \in Users \X Mints |-> InitBal]
    /\ deposited = << >>
    /\ lastClosed = [addr |-> NoAddr, by |-> "none", rec |-> ZeroEscrow]
    /\ frozen = {}
    /\ last = Call("init", Ok, 0, 0, NoAddr)

Make(maker, seed, receive, amount, mint_a, mint_b) ==
    \E r \in {MakeInstruction(Cur, maker, seed, receive, amount, mint_a, mint_b)},
       addr \in {EscrowAddress(maker, seed)} :
    /\ Apply(r)
    /\ deposited' = IF r.err = Ok THEN Put(deposited, addr, amount) ELSE deposited
    /\ UNCHANGED <<lastClosed, frozen>>
    /\ last' = Call("make", r.err, maker, maker, addr)

Take(taker, maker, addr, mint_a, mint_b, vmint) ==
    \E r \in {TakeInstruction(Cur, taker, maker, addr, mint_a, mint_b, vmint)} :
    /\ Apply(r)
    /\ deposited' = IF r.err = Ok THEN Remove(deposited, addr) ELSE deposited
    /\ lastClosed' = IF r.err = Ok
                     THEN [addr |-> addr, by |-> "take", rec |-> escrow[addr]]
                     ELSE lastClosed
    /\ UNCHANGED frozen
    /\ last' = Call("take", r.err, taker, maker, addr)

Refund(maker, addr, mint_a, vmint) ==
    \E r \in {RefundInstruction(Cur, maker, addr, mint_a, vmint)} :
    /\ Apply(r)
    /\ deposited' = IF r.err = Ok THEN Remove(deposited, addr) ELSE deposited
    /\ lastClosed' = IF r.err = Ok
                     THEN [addr |-> addr, by |-> "refund", rec |-> escrow[addr]]
                     ELSE lastClosed
    /\ UNCHANGED frozen
    /\ last' = Call("refund", r.err, maker, maker, addr)

Next ==
    \/ \E maker \in Users, seed \in Seeds, receive \in Amounts, amount \in Amounts,
          mint_a \in Mints, mint_b \in Mints :
          Make(maker, seed, receive, amount, mint_a, mint_b)
    \/ \E taker \in Users, maker \in Users, addr \in Addrs,
          mint_a \in Mints, mint_b \in Mints, vmint \in Mints :
          Take(taker, maker, addr, mint_a, mint_b, vmint)
    \/ \E maker \in Users, addr \in Addrs, mint_a \in Mints, vmint \in Mints :
          Refund(maker, addr, mint_a, vmint)

Spec == Init /\ [][Next]_vars

\* The same instructions with several seeds per maker (and smaller amounts).
SeedsWide == 1..MaxSeedWide
AmountsWide == 0..MaxAmountWide
AddrsWide == {EscrowAddress(m, s) : m \in Users, s \in SeedsWide}

NextWide ==
    \/ \E maker \in Users, seed \in SeedsWide, receive \in AmountsWide,
          amount \in AmountsWide, mint_a \in Mints, mint_b \in Mints :
          Make(maker, seed, receive, amount, mint_a, mint_b)
    \/ \E taker \in Users, maker \in Users, addr \in AddrsWide,
          mint_a \in Mints, mint_b \in Mints, vmint \in Mints :
          Take(taker, maker, addr, mint_a, mint_b, vmint)
    \/ \E maker \in Users, addr \in AddrsWide, mint_a \in Mints, vmint \in Mints :
          Refund(maker, addr, mint_a, vmint)

SpecWide == Init /\ [][NextWide]_vars

\* The freeze authority of a mint freezes a user's token account.
Freeze(user, mint) ==
    /\ <<user, mint>> \notin frozen
    /\ Cardinality(frozen) < MaxFrozen
    /\ frozen' = frozen \cup {<<user, mint>>}
    /\ UNCHANGED <<escrow, vault, bal, deposited, lastClosed>>
    /\ last' = Call("freeze", Ok, 0, 0, NoAddr)

\* The freeze authority of a mint thaws a user's token account.
Thaw(user, mint) ==
    /\ <<user, mint>> \in frozen
    /\ frozen' = frozen \ {<<user, mint>>}
    /\ UNCHANGED <<escrow, vault, bal, deposited, lastClosed>>
    /\ last' = Call("thaw", Ok, 0, 0, NoAddr)

\* The instructions (amounts up to MaxAmountWide) while token accounts are
\* frozen and thawed.
NextFault ==
    \/ \E maker \in Users, seed \in Seeds, receive \in AmountsWide, amount \in AmountsWide,
          mint_a \in Mints, mint_b \in Mints :
          Make(maker, seed, receive, amount, mint_a, mint_b)
    \/ \E taker \in Users, maker \in Users, addr \in Addrs,
          mint_a \in Mints, mint_b \in Mints, vmint \in Mints :
          Take(taker, maker, addr, mint_a, mint_b, vmint)
    \/ \E maker \in Users, addr \in Addrs, mint_a \in Mints, vmint \in Mints :
          Refund(maker, addr, mint_a, vmint)
    \/ \E user \in Users, mint \in Mints : Freeze(user, mint)
    \/ \E user \in Users, mint \in Mints : Thaw(user, mint)

SpecFault == Init /\ [][NextFault]_vars

\* ---------------------------------------------------------------- claims
\* the accounts are the same after the step as before it
StateUnchanged == escrow' = escrow /\ vault' = vault /\ bal' = bal

Retiring == {"take", "refund"}

\* C1 Single-use: a take or refund succeeds only on an Escrow that exists and
\* closes it, so no Escrow is retired twice; a take or refund on an address
\* that holds no Escrow fails with RecordNotFound and changes nothing.
C1_SingleUse ==
    [][last'.op \in Retiring =>
         IF last'.addr \in DOMAIN escrow
         THEN last'.err = Ok => last'.addr \notin DOMAIN escrow'
         ELSE last'.err = RecordNotFound /\ StateUnchanged]_vars

\* a refund that lost the race: it came after the take that closed the Escrow
C1_Witness ==
    /\ last.op = "refund"
    /\ last.err = RecordNotFound
    /\ lastClosed.addr = last.addr
    /\ lastClosed.by = "take"
    /\ last.addr \notin DOMAIN escrow

\* the balances after every transfer of a take of Escrow e by taker, whose
\* vault holds v
BalAfterTake(e, taker, v) ==
    [k \in DOMAIN bal |->
        bal[k] + (IF k = <<taker, e.mint_a>> THEN v ELSE 0)
               - (IF k = <<taker, e.mint_b>> THEN e.receive ELSE 0)
               + (IF k = <<e.maker, e.mint_b>> THEN e.receive ELSE 0)]

\* the balances after the transfer of a refund of Escrow e, whose vault holds v
BalAfterRefund(e, v) ==
    [k \in DOMAIN bal |-> bal[k] + (IF k = <<e.maker, e.mint_a>> THEN v ELSE 0)]

\* the step applied every transfer and close of the take or refund it ran
AllApplied ==
    LET a == last'.addr
        e == escrow[a]
        v == VaultAddress(a, e.mint_a) IN
    /\ a \in DOMAIN escrow
    /\ v \in DOMAIN vault
    /\ escrow' = Remove(escrow, a)
    /\ vault' = Remove(vault, v)
    /\ bal' = IF last'.op = "take"
              THEN BalAfterTake(e, last'.signer, vault[v])
              ELSE BalAfterRefund(e, vault[v])

\* C2 Atomicity: a take or refund that fails, whatever the check or the
\* transfer that failed, leaves every Escrow, every vault and every token
\* balance as it was, and one that succeeds has applied every transfer and
\* close: no step applies only a part of them.
C2_Atomicity ==
    [][last'.op \in Retiring =>
         IF last'.err # Ok THEN StateUnchanged ELSE AllApplied]_vars

\* a take failed in the release of the vault, after its payment to the maker:
\* the taker's Token A account is frozen, its Token B account is not and
\* holds escrow.receive; the Escrow, its vault and the balances are intact
C2_Witness ==
    /\ last.op = "take"
    /\ last.err = TokenAccountFrozen
    /\ last.addr \in DOMAIN escrow
    /\ last.signer # escrow[last.addr].maker
    /\ last.maker = escrow[last.addr].maker
    /\ <<last.signer, escrow[last.addr].mint_a>> \in frozen
    /\ <<last.signer, escrow[last.addr].mint_b>> \notin frozen
    /\ <<last.maker, escrow[last.addr].mint_b>> \notin frozen
    /\ bal[<<last.signer, escrow[last.addr].mint_b>>] >= escrow[last.addr].receive
    /\ vault[VaultAddress(last.addr, escrow[last.addr].mint_a)] = deposited[last.addr]

\* the effects of a successful take, but for the maker's Token B
TakeReleasesVault ==
    LET a == last'.addr
        e == escrow[a]
        taker == last'.signer IN
    /\ a \in DOMAIN escrow
    /\ VaultAddress(a, e.mint_a) \in DOMAIN vault
    /\ bal'[<<taker, e.mint_a>>] = bal[<<taker, e.mint_a>>] + vault[VaultAddress(a, e.mint_a)]
    /\ \A m \in Mints : VaultAddress(a, m) \notin DOMAIN vault'

\* C3 (as claimed) Conservation: on every successful take the taker's Token A
\* grows by the vault's balance, the maker's Token B grows by escrow.receive
\* and the vault is gone, whoever the taker is.
C3_AsClaimed ==
    [][(last'.op = "take" /\ last'.err = Ok) =>
         /\ TakeReleasesVault
         /\ LET e == escrow[last'.addr] IN
            bal'[<<e.maker, e.mint_b>>] = bal[<<e.maker, e.mint_b>>] + e.receive]_vars

\* C3 (amended) Conservation: on every successful take the taker's Token A
\* grows by the vault's balance and the vault is gone; the maker's Token B
\* grows by escrow.receive when the taker is another user, and is unchanged
\* when the maker takes its own escrow.
C3_Conservation ==
    [][(last'.op = "take" /\ last'.err = Ok) =>
         /\ TakeReleasesVault
         /\ LET e == escrow[last'.addr] IN
            bal'[<<e.maker, e.mint_b>>] =
                bal[<<e.maker, e.mint_b>>]
                + (IF last'.signer = e.maker THEN 0 ELSE e.receive)]_vars

\* a take by another user of an Escrow whose price differed from its deposit
C3_Witness ==
    /\ last.op = "take"
    /\ last.err = Ok
    /\ last.signer # last.maker
    /\ lastClosed.addr = last.addr
    /\ lastClosed.rec.receive = 2
    /\ bal[<<last.maker, lastClosed.rec.mint_b>>] >= 2

\* C4 (as claimed) Cancel authorization: a refund of an open Escrow signed by
\* another user than escrow.maker, given the Escrow's own mint and vault,
\* fails with InvalidMaker and changes nothing.
C4_AsClaimed ==
    [][\A u \in Users, a \in Addrs, m \in Mints :
         (/\ a \in DOMAIN escrow
          /\ escrow[a].maker # u
          /\ escrow[a].mint_a = m
          /\ Refund(u, a, m, m))
         => (last'.err = InvalidMaker /\ StateUnchanged)]_vars

\* C5 (as claimed) Fulfill maker binding: a take of an open Escrow that names
\* another maker than escrow.maker, given the Escrow's own mints and vault,
\* fails with InvalidMaker and changes nothing.
C5_AsClaimed ==
    [][\A t \in Users, u \in Users, a \in Addrs, m \in Mints, n \in Mints :
         (/\ a \in DOMAIN escrow
          /\ escrow[a].maker # u
          /\ escrow[a].mint_a = m
          /\ escrow[a].mint_b = n
          /\ Take(t, u, a, m, n, m))
         => (last'.err = InvalidMaker /\ StateUnchanged)]_vars

\* C6 Fulfill ordering: a take whose taker holds less Token B than
\* escrow.receive changes nothing, and a take step changes a vault only when,
\* in the same step, the taker held escrow.receive of Token B and it went to
\* the maker (a maker taking its own escrow pays itself).
C6_FulfillOrdering ==
    [][last'.op = "take" =>
         LET a == last'.addr
             taker == last'.signer IN
         /\ (/\ a \in DOMAIN escrow
             /\ bal[<<taker, escrow[a].mint_b>>] < escrow[a].receive)
               => (last'.err # Ok /\ StateUnchanged)
         /\ vault' # vault =>
              /\ a \in DOMAIN escrow
              /\ bal[<<taker, escrow[a].mint_b>>] >= escrow[a].receive
              /\ LET e == escrow[a]
                     paid == IF taker = e.maker THEN 0 ELSE e.receive IN
                 /\ bal'[<<taker, e.mint_b>>] = bal[<<taker, e.mint_b>>] - paid
                 /\ bal'[<<e.maker, e.mint_b>>] = bal[<<e.maker, e.mint_b>>] + paid]_vars

\* a take that released a vault to a taker who paid the maker 2 of Token B
C6_Witness ==
    /\ last.op = "take"
    /\ last.err = Ok
    /\ last.signer # last.maker
    /\ lastClosed.addr = last.addr
    /\ lastClosed.by = "take"
    /\ lastClosed.rec.receive = 2
    /\ \A m \in Mints : VaultAddress(last.addr, m) \notin DOMAIN vault

\* C7 Cancel refund: a successful refund is signed by escrow.maker, moves the
\* whole vault to the maker's Token A account and nothing else, and closes
\* the vault and the Escrow.
C7_CancelRefund ==
    [][(last'.op = "refund" /\ last'.err = Ok) =>
         LET a == last'.addr IN
         /\ a \in DOMAIN escrow
         /\ LET e == escrow[a]
                v == VaultAddress(a, e.mint_a) IN
            /\ last'.signer = e.maker
            /\ v \in DOMAIN vault
            /\ bal' = [bal EXCEPT ![<<e.maker, e.mint_a>>] = @ + vault[v]]
            /\ vault' = Remove(vault, v)
            /\ escrow' = Remove(escrow, a)
            /\ \A m \in Mints : VaultAddress(a, m) \notin DOMAIN vault']_vars

\* the maker has cancelled an Escrow nobody had taken and holds its deposit again
C7_Witness ==
    /\ last.op = "refund"
    /\ last.err = Ok
    /\ lastClosed.by = "refund"
    /\ lastClosed.addr = last.addr
    /\ last.signer = lastClosed.rec.maker
    /\ last.addr \notin DOMAIN escrow
    /\ bal[<<last.signer, lastClosed.rec.mint_a>>] >= 1

\* C8 Duplicate Create: a make on an address that holds an Escrow fails with
\* DuplicateEscrow and changes neither that Escrow, nor a vault, nor a balance.
C8_DuplicateCreate ==
    [][(last'.op = "make" /\ last'.addr \in DOMAIN escrow) =>
         (last'.err = DuplicateEscrow /\ StateUnchanged)]_vars

\* a second make by the same maker with the same seed, rejected
C8_Witness ==
    /\ last.op = "make"
    /\ last.err = DuplicateEscrow
    /\ last.addr \in DOMAIN escrow
    /\ escrow[last.addr].maker = last.signer

\* the arguments make_handler accepts for a maker
MakeArgsValid(maker, receive, amount, mint_a, mint_b) ==
    /\ receive > 0
    /\ amount > 0
    /\ mint_a # mint_b
    /\ bal[<<maker, mint_a>>] >= amount

\* C9 Reuse after retirement: on the address of the Escrow closed last, once
\* it is free, a make with acceptable arguments succeeds; the new Escrow
\* holds exactly the arguments of this make and the new vault exactly the
\* amount deposited, whatever the closed Escrow held.
C9_Reuse ==
    \A maker \in Users, seed \in Seeds, receive \in Amounts, amount \in Amounts,
       mint_a \in Mints, mint_b \in Mints :
       LET addr == EscrowAddress(maker, seed)
           r == MakeInstruction(Cur, maker, seed, receive, amount, mint_a, mint_b) IN
       (/\ lastClosed.addr = addr
        /\ addr \notin DOMAIN escrow
        /\ MakeArgsValid(maker, receive, amount, mint_a, mint_b))
       => /\ r.err = Ok
          /\ r.st.escrow = Put(escrow, addr,
                 [seed |-> seed, maker |-> maker, mint_a |-> mint_a, mint_b |-> mint_b,
                  receive |-> receive, bump |-> EscrowBump(maker, seed)])
          /\ r.st.vault = Put(vault, VaultAddress(addr, mint_a), amount)
          /\ r.st.bal = [bal EXCEPT ![<<maker, mint_a>>] = @ - amount]

\* an address reused: the Escrow it holds was made after another one was closed
\* there, with another price and the opposite mints
C9_Witness ==
    /\ last.op = "make"
    /\ last.err = Ok
    /\ lastClosed.addr = last.addr
    /\ last.addr \in DOMAIN escrow
    /\ escrow[last.addr].receive # lastClosed.rec.receive
    /\ escrow[last.addr].mint_a # lastClosed.rec.mint_a
    /\ vault[VaultAddress(last.addr, escrow[last.addr].mint_a)] = 2

\* every Escrow has a positive price and a funded vault
OpenEscrowsPositive ==
    \A a \in DOMAIN escrow :
       /\ escrow[a].receive > 0
       /\ VaultAddress(a, escrow[a].mint_a) \in DOMAIN vault
       /\ vault[VaultAddress(a, escrow[a].mint_a)] > 0

\* C10 (as claimed) Create rejects zero amounts: every make with receive = 0
\* or amount = 0 fails with InvalidAmount and changes nothing, and every
\* Escrow has receive > 0 and a vault that holds more than 0.
C10_AsClaimed ==
    /\ OpenEscrowsPositive
    /\ \A maker \in Users, seed \in Seeds, receive \in Amounts, amount \in Amounts,
          mint_a \in Mints, mint_b \in Mints :
          LET r == MakeInstruction(Cur, maker, seed, receive, amount, mint_a, mint_b) IN
          (receive = 0 \/ amount = 0) => (r.err = InvalidAmount /\ r.st = Cur)

\* C10 (amended) Create rejects zero amounts: every make with receive = 0 or
\* amount = 0 fails and changes nothing, with InvalidAmount when the address
\* is free and with DuplicateEscrow when it holds an Escrow; and every
\* Escrow has receive > 0 and a vault that holds more than 0.
C10_ZeroAmounts ==
    /\ OpenEscrowsPositive
    /\ \A maker \in Users, seed \in Seeds, receive \in Amounts, amount \in Amounts,
          mint_a \in Mints, mint_b \in Mints :
          LET r == MakeInstruction(Cur, maker, seed, receive, amount, mint_a, mint_b) IN
          (receive = 0 \/ amount = 0) =>
             /\ r.st = Cur
             /\ r.err = IF EscrowAddress(maker, seed) \in DOMAIN escrow
                        THEN DuplicateEscrow ELSE InvalidAmount

\* a make with a zero amount was rejected while another Escrow was open
C10_Witness ==
    /\ last.op = "make"
    /\ last.err = InvalidAmount
    /\ last.addr \notin DOMAIN escrow
    /\ escrow # << >>

\* every Escrow holds two different mints
OpenEscrowsTwoMints == \A a \in DOMAIN escrow : escrow[a].mint_a # escrow[a].mint_b

\* C11 (as claimed) Create rejects identical assets: every make with
\* mint_a = mint_b fails with InvalidAsset and changes nothing, and every
\* Escrow has mint_a # mint_b.
C11_AsClaimed ==
    /\ OpenEscrowsTwoMints
    /\ \A maker \in Users, seed \in Seeds, receive \in Amounts, amount \in Amounts,
          mint \in Mints :
          LET r == MakeInstruction(Cur, maker, seed, receive, amount, mint, mint) IN
          r.err = InvalidAsset /\ r.st = Cur

\* C11 (amended) Create rejects identical assets: every make with
\* mint_a = mint_b fails and changes nothing, with DuplicateEscrow when the
\* address holds an Escrow, else with InvalidAmount when receive or amount
\* is 0, else with InvalidAsset; and every Escrow has mint_a # mint_b.
C11_IdenticalAssets ==
    /\ OpenEscrowsTwoMints
    /\ \A maker \in Users, seed \in Seeds, receive \in Amounts, amount \in Amounts,
          mint \in Mints :
          LET r == MakeInstruction(Cur, maker, seed, receive, amount, mint, mint) IN
          /\ r.st = Cur
          /\ r.err = IF EscrowAddress(maker, seed) \in DOMAIN escrow THEN DuplicateEscrow
                     ELSE IF receive = 0 \/ amount = 0 THEN InvalidAmount
                     ELSE InvalidAsset

\* a make with twice the same mint was rejected for it, while an Escrow was open
C11_Witness ==
    /\ last.op = "make"
    /\ last.err = InvalidAsset
    /\ last.addr \notin DOMAIN escrow
    /\ escrow # << >>

\* C12 Underfunded Fulfill: a take of an Escrow, given its maker, mints and
\* vault, by a taker who holds less Token B than escrow.receive fails with
\* InsufficientFunds and changes nothing; in that state a refund by the maker
\* succeeds, and so does a take by any user who holds escrow.receive.
C12_UnderfundedFulfill ==
    \A a \in DOMAIN escrow, t \in Users :
       LET e == escrow[a]
           r == TakeInstruction(Cur, t, e.maker, a, e.mint_a, e.mint_b, e.mint_a) IN
       bal[<<t, e.mint_b>>] < e.receive =>
          /\ r.err = TakerInsufficientFunds
          /\ r.st = Cur
          /\ RefundInstruction(Cur, e.maker, a, e.mint_a, e.mint_a).err = Ok
          /\ \A t2 \in Users :
                bal[<<t2, e.mint_b>>] >= e.receive =>
                TakeInstruction(Cur, t2, e.maker, a, e.mint_a, e.mint_b, e.mint_a).err = Ok

\* a taker holding 1 of Token B was refused an Escrow priced 2, which is still open
C12_Witness ==
    /\ last.op = "take"
    /\ last.err = TakerInsufficientFunds
    /\ last.addr \in DOMAIN escrow
    /\ escrow[last.addr].receive = 2
    /\ bal[<<last.signer, escrow[last.addr].mint_b>>] = 1
    /\ VaultAddress(last.addr, escrow[last.addr].mint_a) \in DOMAIN vault

\* C13 Vault balance invariant: while an Escrow exists, the token account of
\* its address for mint_a holds exactly the amount its make deposited, and
\* its address has no token account for another mint.
C13_VaultBalance ==
    \A a \in DOMAIN escrow :
       /\ a \in DOMAIN deposited
       /\ VaultAddress(a, escrow[a].mint_a) \in DOMAIN vault
       /\ vault[VaultAddress(a, escrow[a].mint_a)] = deposited[a]
       /\ \A m \in Mints \ {escrow[a].mint_a} : VaultAddress(a, m) \notin DOMAIN vault

\* an Escrow funded with 2 is still open after a take and a refund of it failed
C13_Witness ==
    /\ last.op \in Retiring
    /\ last.err # Ok
    /\ last.addr \in DOMAIN escrow
    /\ deposited[last.addr] = 2
    /\ vault[VaultAddress(last.addr, escrow[last.addr].mint_a)] = 2

\* the Escrow and the token accounts of address a are the same after the step
AddressUntouched(a) ==
    /\ (a \in DOMAIN escrow) = (a \in DOMAIN escrow')
    /\ a \in DOMAIN escrow => escrow'[a] = escrow[a]
    /\ \A m \in Mints :
          /\ (VaultAddress(a, m) \in DOMAIN vault) = (VaultAddress(a, m) \in DOMAIN vault')
          /\ VaultAddress(a, m) \in DOMAIN vault =>
                vault'[VaultAddress(a, m)] = vault[VaultAddress(a, m)]

\* C14 Multiple concurrent escrows: every Escrow sits at the address of its
\* own (maker, seed), and a make, take or refund on one address leaves the
\* Escrow and the vault of every other address (same maker with another
\* seed, or another maker) as they were.
C14_ConcurrentEscrows ==
    [][/\ \A a \in DOMAIN escrow' : escrow'[a].maker = a[1] /\ escrow'[a].seed = a[2]
       /\ \A a \in AddrsWide \ {last'.addr} : AddressUntouched(a)]_vars

\* a maker opened a second Escrow under another seed while its first one and
\* an Escrow of another maker were open
C14_Witness ==
    /\ last.op = "make"
    /\ last.err = Ok
    /\ \E s \in SeedsWide \ {last.addr[2]} :
          EscrowAddress(last.signer, s) \in DOMAIN escrow
    /\ last.addr \in DOMAIN escrow
    /\ \E a \in DOMAIN escrow : escrow[a].maker # last.signer

\* C15 Create effects: whenever a make succeeds, its address was free, the
\* Escrow written there holds exactly (seed, maker, mint_a, mint_b, receive,
\* bump), the new vault holds exactly amount of mint_a, the maker's Token A
\* is lower by exactly amount, and nothing else changes (no Token B moves).
C15_CreateEffects ==
    \A maker \in Users, seed \in Seeds, receive \in Amounts, amount \in Amounts,
       mint_a \in Mints, mint_b \in Mints :
       LET addr == EscrowAddress(maker, seed)
           r == MakeInstruction(Cur, maker, seed, receive, amount, mint_a, mint_b) IN
       r.err = Ok =>
          /\ addr \notin DOMAIN escrow
          /\ DOMAIN r.st.escrow = DOMAIN escrow \cup {addr}
          /\ \A a \in DOMAIN escrow : r.st.escrow[a] = escrow[a]
          /\ r.st.escrow[addr].seed = seed
          /\ r.st.escrow[addr].maker = maker
          /\ r.st.escrow[addr].mint_a = mint_a
          /\ r.st.escrow[addr].mint_b = mint_b
          /\ r.st.escrow[addr].receive = receive
          /\ r.st.escrow[addr].bump = EscrowBump(maker, seed)
          /\ DOMAIN r.st.vault = DOMAIN vault \cup {VaultAddress(addr, mint_a)}
          /\ \A v \in DOMAIN vault : r.st.vault[v] = vault[v]
          /\ r.st.vault[VaultAddress(addr, mint_a)] = amount
          /\ r.st.bal[<<maker, mint_a>>] = bal[<<maker, mint_a>>] - amount
          /\ \A k \in (Users \X Mints) \ {<<maker, mint_a>>} : r.st.bal[k] = bal[k]

\* a make of 2 against a price of 1 has just succeeded
C15_Witness ==
    /\ last.op = "make"
    /\ last.err = Ok
    /\ last.addr \in DOMAIN escrow
    /\ escrow[last.addr].maker = last.signer
    /\ escrow[last.addr].receive = 1
    /\ deposited[last.addr] = 2
    /\ vault[VaultAddress(last.addr, escrow[last.addr].mint_a)] = 2

\* C16 Record immutability: no step changes a field of an Escrow that exists
\* before and after it, and an Escrow disappears only by a successful take
\* or refund on its own address.
C16_RecordImmutable ==
    [][\A a \in DOMAIN escrow :
          IF a \in DOMAIN escrow'
          THEN escrow'[a] = escrow[a]
          ELSE last'.op \in Retiring /\ last'.err = Ok /\ last'.addr = a]_vars

\* an Escrow priced 2 is unchanged after a failed make on its address
C16_Witness ==
    /\ last.op = "make"
    /\ last.err = DuplicateEscrow
    /\ last.addr \in DOMAIN escrow
    /\ escrow[last.addr].receive = 2
    /\ escrow[last.addr].seed = last.addr[2]
    /\ escrow[last.addr].bump = EscrowBump(last.addr[1], last.addr[2])

\* C17 Vault custody: the amount a vault holds goes down, or the vault goes
\* away, only in a successful take or refund on the address that owns it.
C17_VaultCustody ==
    [][\A v \in DOMAIN vault :
          (v \notin DOMAIN vault' \/ vault'[v] < vault[v]) =>
             /\ last'.op \in Retiring
             /\ last'.err = Ok
             /\ last'.addr = v[1]
             /\ v[1] \in DOMAIN escrow
             /\ SignerSeedsValid(escrow[v[1]], last'.maker, v[1])]_vars

\* a vault survived a refund signed by another user than the maker
C17_Witness ==
    /\ last.op = "refund"
    /\ last.err # Ok
    /\ last.addr \in DOMAIN escrow
    /\ last.signer # escrow[last.addr].maker
    /\ VaultAddress(last.addr, escrow[last.addr].mint_a) \in DOMAIN vault
    /\ vault[VaultAddress(last.addr, escrow[last.addr].mint_a)] = deposited[last.addr]

\* C18 Record and vault live and die together: in every reachable state the
\* vaults that exist are exactly the mint_a vaults of the Escrows that exist.
C18_RecordAndVault ==
    DOMAIN vault = {VaultAddress(a, escrow[a].mint_a) : a \in DOMAIN escrow}

\* a take has just retired one Escrow with its vault while another Escrow
\* is open with its vault
C18_Witness ==
    /\ last.op = "take"
    /\ last.err = Ok
    /\ last.addr \notin DOMAIN escrow
    /\ \A m \in Mints : VaultAddress(last.addr, m) \notin DOMAIN vault
    /\ \E a \in DOMAIN escrow : VaultAddress(a, escrow[a].mint_a) \in DOMAIN vault

\* the sum of f over the keys in S
RECURSIVE SumOver(_, _)
SumOver(f, S) ==
    IF S = {} THEN 0
    ELSE LET k == CHOOSE x \in S : TRUE IN f[k] + SumOver(f, S \ {k})

\* all of a mint that exists: in the users' token accounts and in the vaults
Supply(mint) ==
    SumOver(bal, {k \in DOMAIN bal : k[2] = mint})
    + SumOver(vault, {v \in DOMAIN vault : v[2] = mint})

\* C19 Supply conservation: in every reachable state the total of each mint
\* over all users' balances and all vaults is the initial total.
C19_SupplyConserved ==
    \A mint \in Mints : Supply(mint) = NumUsers * InitBal

\* after a successful take one user holds all of a mint outside a vault
\* that holds some of the other mint
C19_Witness ==
    /\ last.op = "take"
    /\ last.err = Ok
    /\ \E u \in Users, m \in Mints : bal[<<u, m>>] = NumUsers * InitBal
    /\ \E v \in DOMAIN vault : vault[v] > 0

\* the refund of Escrow a called by its recorded maker with its own vault
CancelByMaker(a) ==
    /\ a \in DOMAIN escrow
    /\ Refund(escrow[a].maker, a, escrow[a].mint_a, escrow[a].mint_a)

\* the three instructions with amounts up to MaxAmountWide
NextFair ==
    \/ \E maker \in Users, seed \in Seeds, receive \in AmountsWide, amount \in AmountsWide,
          mint_a \in Mints, mint_b \in Mints :
          Make(maker, seed, receive, amount, mint_a, mint_b)
    \/ \E taker \in Users, maker \in Users, addr \in Addrs,
          mint_a \in Mints, mint_b \in Mints, vmint \in Mints :
          Take(taker, maker, addr, mint_a, mint_b, vmint)
    \/ \E maker \in Users, addr \in Addrs, mint_a \in Mints, vmint \in Mints :
          Refund(maker, addr, mint_a, vmint)

\* the makers' refunds are not postponed forever
SpecFair == Init /\ [][NextFair]_vars /\ \A a \in Addrs : WF_vars(CancelByMaker(a))

\* C20 No lock-up: in every reachable state a refund by the recorded maker of
\* an Escrow that exists succeeds, closes the Escrow and its vault and returns
\* the vault's amount; and when the makers' refunds are not postponed forever
\* every Escrow that exists is eventually closed.
C20_NoLockUp ==
    /\ [](\A a \in DOMAIN escrow :
            LET e == escrow[a]
                r == RefundInstruction(Cur, e.maker, a, e.mint_a, e.mint_a) IN
            /\ r.err = Ok
            /\ a \notin DOMAIN r.st.escrow
            /\ VaultAddress(a, e.mint_a) \notin DOMAIN r.st.vault
            /\ r.st.bal[<<e.maker, e.mint_a>>]
                 = bal[<<e.maker, e.mint_a>>] + vault[VaultAddress(a, e.mint_a)])
    /\ \A a \in Addrs : (a \in DOMAIN escrow) ~> (a \notin DOMAIN escrow)

\* an Escrow is open after a take of it by another user than its maker failed
\* for lack of funds
C20_Witness ==
    /\ last.op = "take"
    /\ last.err = TakerInsufficientFunds
    /\ last.addr \in DOMAIN escrow
    /\ last.signer # escrow[last.addr].maker
    /\ vault[VaultAddress(last.addr, escrow[last.addr].mint_a)] > 0

====
